---- MODULE Spec2Model ----
(***************************************************************************)
(* Model of the Z80 code-generation session of src/src/codegen.rs          *)
(* (struct CodeGen): the byte image, the symbol table, the fixup ledger,   *)
(* the relocation resolver, the relative-branch encoder, the unique-name   *)
(* generator and the two serializers; with the startup sequence of         *)
(* src/src/lib.rs and the routines of src/src/stdlib that include_stdlib   *)
(* emits.                                                                  *)
(*                                                                         *)
(* Integers keep the widths of the Rust types: u8 bytes, u16 addresses,    *)
(* i8 displacements.  An overflowing u16 addition aborts the process in a  *)
(* build with overflow checks and wraps in a build without them; both      *)
(* outcomes are modelled.  A panic ends the session: no operation is       *)
(* enabled once panic is set.                                              *)
(***************************************************************************)
EXTENDS Integers, Sequences, FiniteSets, TLC

VARIABLES
    rom,             \* CodeGen.rom: Vec<u8>
    labels,          \* CodeGen.labels: HashMap<String, u16>
    fixups,          \* CodeGen.fixups: Vec<(usize, String)>
    config,          \* CodeGen.config: RomConfig
    unique_counter,  \* CodeGen.unique_counter: u32
    panic,           \* message of the panic that ended the session, or NoPanic
    bin_file,        \* bytes of the file written by write_bin
    hex_file,        \* bytes of the file written by write_hex
    calls            \* the calls made on the session so far, in order,
                     \* each with its argument and what it returned

vars == <<rom, labels, fixups, config, unique_counter, panic, bin_file,
          hex_file, calls>>

----------------------------------------------------------------------------
(* Bounds of the exploration *)

MaxOps == 4

(* Integer widths *)
U8 == 256
U16 == 65536

Byte == 0 .. (U8 - 1)

NoPanic == ""
Unit == <<>>
NoFile == <<"absent">>

(* Arguments the callers are given to choose from *)
Names == {"L", "M"}
Origins == {0, 65530}
EmitArgs == {<<0, 1, 2>>}
ByteArgs == {201}
WordArgs == {4660}
Hi == <<72, 105>>
StrArgs == {Hi}
RawArgs == {Hi}
Prefixes == {"loop", "loop_1"}

----------------------------------------------------------------------------
(* RomConfig and construction *)

DefaultConfig == [org |-> 0, stack_top |-> 16383, ram_start |-> 8192]

with_config(c) ==
    /\ rom = << >>
    /\ labels = << >>
    /\ fixups = << >>
    /\ config = c
    /\ unique_counter = 0

(* a fresh session at one of the given origins, nothing written yet *)
Start(origins) ==
    /\ \E o \in origins : with_config([DefaultConfig EXCEPT !.org = o])
    /\ panic = NoPanic
    /\ bin_file = NoFile
    /\ hex_file = NoFile
    /\ calls = << >>

Init == Start(Origins)

(* The session accepts calls until a panic has ended it; the exploration   *)
(* follows it for at most MaxOps calls.                                    *)
Running == panic = NoPanic /\ Len(calls) < MaxOps

(* Record of the call just made *)
Call(name, arg, r) ==
    calls' = Append(calls, [name |-> name, arg |-> arg, ret |-> r])

----------------------------------------------------------------------------
(* Queries *)

(* config.org + rom.len() as u16, before it is reduced to 16 bits *)
PosSum == config.org + (Len(rom) % U16)

PosOverflows == PosSum >= U16

(* pos() with the origin left out of the sum *)
PosValueNoOrigin == Len(rom) % U16

(* the value pos() returns when it returns *)
PosValue == PosSum % U16

OverflowMsg == "attempt to add with overflow"

(* what a call that panicked "returns" *)
Diverged == <<"diverged">>

None == <<"None">>
Some(v) == <<"Some", v>>

pos ==
    /\ Running
    /\ \/ /\ panic' = panic
          /\ Call("pos", Unit, PosValue)
       \/ /\ PosOverflows
          /\ panic' = OverflowMsg
          /\ Call("pos", Unit, Diverged)
    /\ UNCHANGED <<rom, labels, fixups, config, unique_counter, bin_file,
                   hex_file>>

(* The getters below read the session and cannot fail *)
size == Len(rom)

has_label(name) == name \in DOMAIN labels

get_label(name) == IF name \in DOMAIN labels THEN Some(labels[name]) ELSE None

----------------------------------------------------------------------------
(* Core emit functions *)

(* emit with the new bytes put in front of the image *)
emit_in_front(bytes) ==
    /\ Running
    /\ rom' = bytes \o rom
    /\ Call("emit", bytes, Unit)
    /\ UNCHANGED <<labels, fixups, config, unique_counter, panic, bin_file,
                   hex_file>>

emit(bytes) ==
    /\ Running
    /\ rom' = rom \o bytes
    /\ Call("emit", bytes, Unit)
    /\ UNCHANGED <<labels, fixups, config, unique_counter, panic, bin_file,
                   hex_file>>

emit_byte(b) ==
    /\ Running
    /\ rom' = Append(rom, b)
    /\ Call("emit_byte", b, Unit)
    /\ UNCHANGED <<labels, fixups, config, unique_counter, panic, bin_file,
                   hex_file>>

(* emit_word with the high byte pushed first *)
WordBytesBigEndian(word) == <<(word \div U8) % U8, word % U8>>

(* the two pushes of emit_word: word as u8, then (word >> 8) as u8 *)
WordBytes(word) == <<word % U8, (word \div U8) % U8>>

emit_word(word) ==
    /\ Running
    /\ rom' = rom \o WordBytes(word)
    /\ Call("emit_word", word, Unit)
    /\ UNCHANGED <<labels, fixups, config, unique_counter, panic, bin_file,
                   hex_file>>

(* emit_string without the push of the terminator *)
emit_string_unterminated(s) ==
    /\ Running
    /\ rom' = rom \o s
    /\ Call("emit_string", s, Unit)
    /\ UNCHANGED <<labels, fixups, config, unique_counter, panic, bin_file,
                   hex_file>>

(* a &str is held as its UTF-8 bytes, which s.bytes() yields in order *)
emit_string(s) ==
    /\ Running
    /\ rom' = Append(rom \o s, 0)
    /\ Call("emit_string", s, Unit)
    /\ UNCHANGED <<labels, fixups, config, unique_counter, panic, bin_file,
                   hex_file>>

(* emit_string_raw starting the image over with the string *)
emit_string_raw_restart(s) ==
    /\ Running
    /\ rom' = s
    /\ Call("emit_string_raw", s, Unit)
    /\ UNCHANGED <<labels, fixups, config, unique_counter, panic, bin_file,
                   hex_file>>

emit_string_raw(s) ==
    /\ Running
    /\ rom' = rom \o s
    /\ Call("emit_string_raw", s, Unit)
    /\ UNCHANGED <<labels, fixups, config, unique_counter, panic, bin_file,
                   hex_file>>

----------------------------------------------------------------------------
(* Label management *)

(* an insert that leaves the value of an existing key as it is *)
InsertKeepOld(map, key, value) ==
    [k \in (DOMAIN map) \cup {key} |-> IF k \in DOMAIN map THEN map[k] ELSE value]

(* HashMap::insert: binds the key, replacing the value of an existing key *)
Insert(map, key, value) ==
    [k \in (DOMAIN map) \cup {key} |-> IF k = key THEN value ELSE map[k]]

label(name) ==
    /\ Running
    /\ \/ /\ labels' = Insert(labels, name, PosValue)
          /\ panic' = panic
          /\ Call("label", name, Unit)
       \/ /\ PosOverflows
          /\ panic' = OverflowMsg
          /\ Call("label", name, Diverged)
          /\ UNCHANGED labels
    /\ UNCHANGED <<rom, fixups, config, unique_counter, bin_file, hex_file>>

(* fixup with the ledger entry pushed after the placeholder is emitted *)
fixup_after_placeholder(name) ==
    /\ Running
    /\ rom' = rom \o WordBytes(0)
    /\ fixups' = Append(fixups, <<Len(rom'), name>>)
    /\ Call("fixup", name, Unit)
    /\ UNCHANGED <<labels, config, unique_counter, panic, bin_file, hex_file>>

(* fixup with a placeholder of one byte *)
fixup_short_placeholder(name) ==
    /\ Running
    /\ fixups' = Append(fixups, <<Len(rom), name>>)
    /\ rom' = Append(rom, 0)
    /\ Call("fixup", name, Unit)
    /\ UNCHANGED <<labels, config, unique_counter, panic, bin_file, hex_file>>

(* fixup storing the address of a label that is already defined *)
fixup_eager(name) ==
    /\ Running
    /\ fixups' = Append(fixups, <<Len(rom), name>>)
    /\ rom' = rom \o (IF name \in DOMAIN labels THEN WordBytes(labels[name])
                                               ELSE WordBytes(0))
    /\ Call("fixup", name, Unit)
    /\ UNCHANGED <<labels, config, unique_counter, panic, bin_file, hex_file>>

fixup(name) ==
    /\ Running
    /\ fixups' = Append(fixups, <<Len(rom), name>>)
    /\ rom' = rom \o WordBytes(0)
    /\ Call("fixup", name, Unit)
    /\ UNCHANGED <<labels, config, unique_counter, panic, bin_file, hex_file>>

IndexMsg(len, index) ==
    "index out of bounds: the len is " \o ToString(len)
        \o " but the index is " \o ToString(index)

UndefinedLabelMsg(name) == "Undefined label: " \o name

(* the two bytes resolve_fixups stores: addr as u8, then (addr >> 8) as u8 *)
AddrBytesSwapped(addr) == <<(addr \div U8) % U8, addr % U8>>

AddrBytes(addr) == <<addr % U8, (addr \div U8) % U8>>

(* an iteration that adds the address to the bytes of the slot instead of *)
(* storing it                                                             *)
resolve_entry_accumulate(res, i) ==
    IF res.panic # NoPanic THEN res
    ELSE LET r == res.rom
             offset == fixups[i][1]
             name == fixups[i][2]
         IN  IF name \notin DOMAIN labels
             THEN [rom |-> r, panic |-> UndefinedLabelMsg(name)]
             ELSE LET addr == labels[name]
                      lo == AddrBytes(addr)[1]
                      hi == AddrBytes(addr)[2]
                  IN  IF offset >= Len(r)
                      THEN [rom |-> r, panic |-> IndexMsg(Len(r), offset)]
                      ELSE IF offset + 1 >= Len(r)
                      THEN [rom |-> [r EXCEPT ![offset + 1] = (@ + lo) % U8],
                            panic |-> IndexMsg(Len(r), offset + 1)]
                      ELSE [rom |-> [r EXCEPT ![offset + 1] = (@ + lo) % U8,
                                              ![offset + 2] = (@ + hi) % U8],
                            panic |-> NoPanic]

(* One iteration of the loop of resolve_fixups, for ledger entry i, on the *)
(* image res.rom; a panic of an earlier iteration has ended the loop.      *)
resolve_entry(res, i) ==
    IF res.panic # NoPanic THEN res
    ELSE LET r == res.rom
             offset == fixups[i][1]
             name == fixups[i][2]
         IN  IF name \notin DOMAIN labels
             THEN [rom |-> r, panic |-> UndefinedLabelMsg(name)]
             ELSE LET addr == labels[name]
                      lo == AddrBytes(addr)[1]
                      hi == AddrBytes(addr)[2]
                  IN  IF offset >= Len(r)
                      THEN [rom |-> r, panic |-> IndexMsg(Len(r), offset)]
                      ELSE IF offset + 1 >= Len(r)
                      THEN [rom |-> [r EXCEPT ![offset + 1] = lo],
                            panic |-> IndexMsg(Len(r), offset + 1)]
                      ELSE [rom |-> [r EXCEPT ![offset + 1] = lo,
                                              ![offset + 2] = hi],
                            panic |-> NoPanic]

(* the iterations for the entries first .. last, in order *)
RECURSIVE resolve_range(_, _, _)
resolve_range(res, first, last) ==
    IF first > last \/ res.panic # NoPanic THEN res
    ELSE IF first = last THEN resolve_entry(res, first)
    ELSE LET middle == (first + last) \div 2
             half == resolve_range(res, first, middle)
         IN  IF half.panic # NoPanic THEN half
             ELSE resolve_range(half, middle + 1, last)

(* resolve_fixups with the lookup turned into a skip of unknown names *)
RECURSIVE resolve_loop_skip(_, _)
resolve_loop_skip(r, i) ==
    IF i > Len(fixups) THEN [rom |-> r, panic |-> NoPanic]
    ELSE LET offset == fixups[i][1]
             name == fixups[i][2]
         IN  IF name \notin DOMAIN labels
             THEN resolve_loop_skip(r, i + 1)
             ELSE resolve_loop_skip(
                      [r EXCEPT ![offset + 1] = AddrBytes(labels[name])[1],
                                ![offset + 2] = AddrBytes(labels[name])[2]],
                      i + 1)

(* resolve_fixups handing back the image it started from when it fails *)
resolve_loop_rollback(r, i) ==
    LET res == resolve_range([rom |-> r, panic |-> NoPanic], i, Len(fixups))
    IN  IF res.panic # NoPanic THEN [rom |-> r, panic |-> res.panic] ELSE res

(* The loop of resolve_fixups from ledger entry i on, over the image r:    *)
(* the image it leaves and the panic that stopped it, if any.              *)
resolve_loop(r, i) ==
    resolve_range([rom |-> r, panic |-> NoPanic], i, Len(fixups))

(* resolve_fixups draining the ledger it has walked *)
resolve_fixups_drain ==
    /\ Running
    /\ LET res == resolve_loop(rom, 1)
       IN  /\ rom' = res.rom
           /\ panic' = res.panic
           /\ Call("resolve_fixups", Unit,
                   IF res.panic = NoPanic THEN Unit ELSE Diverged)
    /\ fixups' = << >>
    /\ UNCHANGED <<labels, config, unique_counter, bin_file, hex_file>>

resolve_fixups ==
    /\ Running
    /\ LET res == resolve_loop(rom, 1)
       IN  /\ rom' = res.rom
           /\ panic' = res.panic
           /\ Call("resolve_fixups", Unit,
                   IF res.panic = NoPanic THEN Unit ELSE Diverged)
    /\ UNCHANGED <<labels, fixups, config, unique_counter, bin_file, hex_file>>

UndefinedRelativeMsg(name) == "Undefined label for relative jump: " \o name

(* the displacement taken from the operand byte, not from the byte after *)
RelativeOffsetFromOperand(target, current) == (target - (current - 1)) % U8

(* (target as i32 - current as i32) as i8, as the byte emit_byte is given *)
RelativeOffset(target, current) == (target - current) % U8

(* a byte read as a signed 8-bit integer *)
AsI8(b) == IF b >= 128 THEN b - U8 ELSE b

(* emit_relative deferring an undefined target to the ledger *)
emit_relative_deferred(target_label) ==
    /\ Running
    /\ \/ /\ target_label \notin DOMAIN labels
          /\ fixups' = Append(fixups, <<Len(rom), target_label>>)
          /\ rom' = Append(rom, 0)
          /\ panic' = panic
          /\ Call("emit_relative", target_label, Unit)
       \/ /\ target_label \in DOMAIN labels
          /\ LET target == labels[target_label]
                 current == (PosValue + 1) % U16
             IN  rom' = Append(rom, RelativeOffset(target, current))
          /\ panic' = panic
          /\ Call("emit_relative", target_label, Unit)
          /\ UNCHANGED fixups
    /\ UNCHANGED <<labels, config, unique_counter, bin_file, hex_file>>

emit_relative(target_label) ==
    /\ Running
    /\ \/ /\ target_label \notin DOMAIN labels
          /\ panic' = UndefinedRelativeMsg(target_label)
          /\ Call("emit_relative", target_label, Diverged)
          /\ UNCHANGED rom
       \/ /\ target_label \in DOMAIN labels
          /\ PosOverflows \/ PosValue + 1 >= U16
          /\ panic' = OverflowMsg
          /\ Call("emit_relative", target_label, Diverged)
          /\ UNCHANGED rom
       \/ /\ target_label \in DOMAIN labels
          /\ LET target == labels[target_label]
                 current == (PosValue + 1) % U16
             IN  rom' = Append(rom, RelativeOffset(target, current))
          /\ panic' = panic
          /\ Call("emit_relative", target_label, Unit)
    /\ UNCHANGED <<labels, fixups, config, unique_counter, bin_file, hex_file>>

----------------------------------------------------------------------------
(* Unique-name generator *)

(* the name with the counter put before the prefix *)
UniqueNameCounterFirst(prefix, counter) ==
    "_" \o ToString(counter) \o "_" \o prefix

(* format!("_{}_{}", prefix, counter) *)
UniqueName(prefix, counter) == "_" \o prefix \o "_" \o ToString(counter)

(* unique_label without the increment of the counter *)
unique_label_no_increment(prefix) ==
    /\ Running
    /\ Call("unique_label", prefix, UniqueName(prefix, unique_counter + 1))
    /\ UNCHANGED <<rom, labels, fixups, config, unique_counter, panic,
                   bin_file, hex_file>>

unique_label(prefix) ==
    /\ Running
    /\ unique_counter' = unique_counter + 1
    /\ Call("unique_label", prefix, UniqueName(prefix, unique_counter'))
    /\ UNCHANGED <<rom, labels, fixups, config, panic, bin_file, hex_file>>

----------------------------------------------------------------------------
(* Output.  Each serializer writes the file at the path it is given; a     *)
(* File::create that fails returns Err and leaves the file as it was.  A   *)
(* write that fails midway is not modelled.                                *)

Ok == <<"Ok">>
Err == <<"Err">>

write_bin ==
    /\ Running
    /\ \/ /\ bin_file' = rom
          /\ Call("write_bin", Unit, Ok)
       \/ /\ UNCHANGED bin_file
          /\ Call("write_bin", Unit, Err)
    /\ UNCHANGED <<rom, labels, fixups, config, unique_counter, panic,
                   hex_file>>

(* ASCII codes of the characters write_hex prints *)
Colon == 58
Newline == 10
HexDigit(d) == IF d < 10 THEN 48 + d ELSE 55 + d

(* {:02X} of a u8 and {:04X} of a u16 *)
Hex2(b) == <<HexDigit(b \div 16), HexDigit(b % 16)>>
Hex4(w) == Hex2(w \div U8) \o Hex2(w % U8)

(* rom.chunks(16): the number of chunks and the i-th chunk, i from 0 *)
ChunkSize == 16
NumChunks(r) == (Len(r) + ChunkSize - 1) \div ChunkSize
Chunk(r, i) ==
    SubSeq(r, ChunkSize * i + 1,
           IF ChunkSize * i + ChunkSize < Len(r)
           THEN ChunkSize * i + ChunkSize ELSE Len(r))

RECURSIVE SumBytes(_)
SumBytes(s) == IF s = << >> THEN 0 ELSE Head(s) + SumBytes(Tail(s))

RECURSIVE HexBytes(_)
HexBytes(s) == IF s = << >> THEN << >> ELSE Hex2(Head(s)) \o HexBytes(Tail(s))

(* the checksum left as the one's complement of the sum *)
ChecksumOnesComplement(len, addr, chunk) ==
    LET sum == (len + ((addr \div U8) % U8) + (addr % U8) + SumBytes(chunk))
                   % U8
    IN  U8 - 1 - sum

(* the wrapping_add chain, then (!checksum).wrapping_add(1) *)
Checksum(len, addr, chunk) ==
    LET sum == (len + ((addr \div U8) % U8) + (addr % U8) + SumBytes(chunk))
                   % U8
    IN  ((U8 - 1 - sum) + 1) % U8

(* the text of one data record, with the newline writeln! appends *)
DataRecord(len, addr, chunk) ==
    <<Colon>> \o Hex2(len) \o Hex4(addr) \o <<48, 48>> \o HexBytes(chunk)
        \o Hex2(Checksum(len, addr, chunk)) \o <<Newline>>

(* ":00000001FF" and its newline *)
EofRecord == <<Colon, 48, 48, 48, 48, 48, 48, 48, 49, 70, 70, Newline>>

(* the record address taken from the chunk index, not the byte offset *)
ChunkAddrSumByIndex(i) == config.org + (i % U16)

(* config.org + (i * 16) as u16, before it is reduced to 16 bits *)
ChunkAddrSum(i) == config.org + ((i * ChunkSize) % U16)

(* The loop of write_hex from chunk i on, text being the file so far.      *)
(* checked: the build traps an overflowing u16 addition instead of         *)
(* wrapping it.                                                            *)
RECURSIVE write_hex_loop(_, _, _)
write_hex_loop(i, text, checked) ==
    IF i >= NumChunks(rom)
    THEN [text |-> text \o EofRecord, panic |-> NoPanic]
    ELSE LET chunk == Chunk(rom, i)
             sum == ChunkAddrSum(i)
             addr == sum % U16
             len == Len(chunk) % U8
         IN  IF checked /\ sum >= U16
             THEN [text |-> text, panic |-> OverflowMsg]
             ELSE write_hex_loop(i + 1, text \o DataRecord(len, addr, chunk),
                                 checked)

write_hex ==
    /\ Running
    /\ \/ \E checked \in BOOLEAN :
             LET res == write_hex_loop(0, << >>, checked)
             IN  /\ hex_file' = res.text
                 /\ panic' = res.panic
                 /\ Call("write_hex", Unit,
                         IF res.panic = NoPanic THEN Ok ELSE Diverged)
       \/ /\ UNCHANGED <<hex_file, panic>>
          /\ Call("write_hex", Unit, Err)
    /\ UNCHANGED <<rom, labels, fixups, config, unique_counter, bin_file>>

(* rom_mut hands the caller the Vec<u8> itself.  What the caller then does *)
(* with it is one of the Vec operations below: a push, a truncate to a     *)
(* length, or a store at an index, which panics past the end.              *)
MutEdits == {<<"push", 7>>, <<"truncate", 1>>, <<"store", 0, 255>>}

rom_mut(edit) ==
    /\ Running
    /\ \/ /\ edit[1] = "push"
          /\ rom' = Append(rom, edit[2])
          /\ panic' = panic
          /\ Call("rom_mut", edit, Unit)
       \/ /\ edit[1] = "truncate"
          /\ rom' = IF edit[2] < Len(rom) THEN SubSeq(rom, 1, edit[2]) ELSE rom
          /\ panic' = panic
          /\ Call("rom_mut", edit, Unit)
       \/ /\ edit[1] = "store"
          /\ edit[2] < Len(rom)
          /\ rom' = [rom EXCEPT ![edit[2] + 1] = edit[3]]
          /\ panic' = panic
          /\ Call("rom_mut", edit, Unit)
       \/ /\ edit[1] = "store"
          /\ edit[2] >= Len(rom)
          /\ rom' = rom
          /\ panic' = IndexMsg(Len(rom), edit[2])
          /\ Call("rom_mut", edit, Diverged)
    /\ UNCHANGED <<labels, fixups, config, unique_counter, bin_file, hex_file>>

----------------------------------------------------------------------------
(* Startup sequence (lib.rs): label("_start"), di(), ld_sp(stack_top) *)

(* opcodes of DI and of LD SP, nn *)
OpDI == 243
OpLdSp == 49

StackTops == {16383, 32767}

emit_startup(stack_top) ==
    /\ Running
    /\ \/ /\ labels' = Insert(labels, "_start", PosValue)
          /\ rom' = rom \o <<OpDI>> \o <<OpLdSp>> \o WordBytes(stack_top)
          /\ panic' = panic
          /\ Call("emit_startup", stack_top, Unit)
       \/ /\ PosOverflows
          /\ panic' = OverflowMsg
          /\ Call("emit_startup", stack_top, Diverged)
          /\ UNCHANGED <<labels, rom>>
    /\ UNCHANGED <<fixups, config, unique_counter, bin_file, hex_file>>

----------------------------------------------------------------------------
(* Standard library (stdlib/io.rs, terminal.rs, math.rs).  A routine is    *)
(* the list of the label, emit and fixup calls it makes, run in order on   *)
(* the session; the instruction helpers of instructions.rs are the lists   *)
(* of one or two such calls they make.                                     *)

label_step(name) == <<[op |-> "label", x |-> name]>>
emit_step(bytes) == <<[op |-> "emit", x |-> bytes]>>
fixup_step(name) == <<[op |-> "fixup", x |-> name]>>

(* the session as a record the steps are run on *)
Session ==
    [rom |-> rom, labels |-> labels, fixups |-> fixups,
     unique_counter |-> unique_counter, panic |-> panic]

(* one step on the session st; checked: the build traps the overflowing    *)
(* u16 addition of pos() instead of wrapping it                            *)
RunStep(step, st, checked) ==
    IF st.panic # NoPanic THEN st
    ELSE IF step.op = "emit" THEN [st EXCEPT !.rom = st.rom \o step.x]
    ELSE IF step.op = "fixup"
    THEN [st EXCEPT !.fixups = Append(st.fixups, <<Len(st.rom), step.x>>),
                    !.rom = st.rom \o WordBytes(0)]
    ELSE LET sum == config.org + (Len(st.rom) % U16)
         IN  IF checked /\ sum >= U16
             THEN [st EXCEPT !.panic = OverflowMsg]
             ELSE [st EXCEPT !.labels = Insert(st.labels, step.x, sum % U16)]

(* the steps in order; a panic ends the run *)
RECURSIVE Run(_, _, _)
Run(steps, st, checked) ==
    IF steps = << >> \/ st.panic # NoPanic THEN st
    ELSE IF Len(steps) = 1 THEN RunStep(steps[1], st, checked)
    ELSE LET middle == Len(steps) \div 2
             half == Run(SubSeq(steps, 1, middle), st, checked)
         IN  IF half.panic # NoPanic THEN half
             ELSE Run(SubSeq(steps, middle + 1, Len(steps)), half, checked)

(* instructions.rs: the helpers the routines use *)
ld_a(n) == emit_step(<<62, n>>)
ld_b(n) == emit_step(<<6, n>>)
ld_c(n) == emit_step(<<14, n>>)
ld_a_hl_ind == emit_step(<<126>>)
ld_a_b == emit_step(<<120>>)
ld_a_c == emit_step(<<121>>)
ld_bc(nn) == emit_step(<<1>>) \o emit_step(WordBytes(nn))
push_af == emit_step(<<245>>)
pop_af == emit_step(<<241>>)
ex_de_hl == emit_step(<<235>>)
add_a(n) == emit_step(<<198, n>>)
sub_a(n) == emit_step(<<214, n>>)
inc_b == emit_step(<<4>>)
inc_c == emit_step(<<12>>)
dec_c == emit_step(<<13>>)
inc_hl == emit_step(<<35>>)
inc_bc == emit_step(<<3>>)
add_hl_de == emit_step(<<25>>)
sbc_hl_de == emit_step(<<237, 82>>)
and_a(n) == emit_step(<<230, n>>)
or_a_a == emit_step(<<183>>)
cp(n) == emit_step(<<254, n>>)
cpl == emit_step(<<47>>)
jp(target) == emit_step(<<195>>) \o fixup_step(target)
jp_nz(target) == emit_step(<<194>>) \o fixup_step(target)
jp_c(target) == emit_step(<<218>>) \o fixup_step(target)
call(target) == emit_step(<<205>>) \o fixup_step(target)
ret == emit_step(<<201>>)
ret_z == emit_step(<<200>>)
in_a(port) == emit_step(<<219, port>>)
out_a(port) == emit_step(<<211, port>>)

(* stdlib/io.rs *)
MC6850Config ==
    [status_port |-> 128, data_port |-> 129, rx_ready_bit |-> 1,
     tx_ready_bit |-> 2]

emit_getchar_config(c) ==
    label_step("getchar")
        \o in_a(c.status_port)
        \o and_a(c.rx_ready_bit)
        \o emit_step(<<40, 250>>)
        \o in_a(c.data_port)
        \o ret

emit_getchar == emit_getchar_config(MC6850Config)

emit_putchar_config(c) ==
    label_step("putchar")
        \o push_af
        \o label_step("putchar_wait")
        \o in_a(c.status_port)
        \o and_a(c.tx_ready_bit)
        \o emit_step(<<40, 250>>)
        \o pop_af
        \o out_a(c.data_port)
        \o ret

emit_putchar == emit_putchar_config(MC6850Config)

emit_newline ==
    label_step("newline")
        \o ld_a(13)
        \o call("putchar")
        \o ld_a(10)
        \o call("putchar")
        \o ret

emit_print_string ==
    label_step("print_string")
        \o label_step("print_string_loop")
        \o ld_a_hl_ind
        \o or_a_a
        \o ret_z
        \o call("putchar")
        \o inc_hl
        \o jp("print_string_loop")

emit_io_routines(st, checked) ==
    LET s1 == Run(emit_getchar, st, checked)
        s2 == Run(emit_putchar, s1, checked)
        s3 == Run(emit_newline, s2, checked)
    IN  Run(emit_print_string, s3, checked)

(* stdlib/terminal.rs; the characters are their ASCII codes *)
ESC == 27

emit_csi == ld_a(ESC) \o call("putchar") \o ld_a(91) \o call("putchar")

emit_clear_screen ==
    label_step("clear_screen")
        \o emit_csi
        \o ld_a(50)
        \o call("putchar")
        \o ld_a(74)
        \o call("putchar")

emit_cursor_home ==
    label_step("cursor_home")
        \o emit_csi
        \o ld_a(72)
        \o call("putchar")
        \o ret

emit_clear_screen_and_home == emit_clear_screen \o emit_cursor_home

emit_cursor_pos ==
    label_step("cursor_pos")
        \o emit_csi
        \o ld_a_b
        \o call("print_byte_dec")
        \o ld_a(59)
        \o call("putchar")
        \o ld_a_c
        \o call("print_byte_dec")
        \o ld_a(72)
        \o call("putchar")
        \o ret

emit_clear_to_eol ==
    label_step("clear_to_eol")
        \o emit_csi
        \o ld_a(75)
        \o call("putchar")
        \o ret

emit_cursor_hide ==
    label_step("cursor_hide")
        \o emit_csi
        \o ld_a(63)
        \o call("putchar")
        \o ld_a(50)
        \o call("putchar")
        \o ld_a(53)
        \o call("putchar")
        \o ld_a(108)
        \o call("putchar")
        \o ret

emit_cursor_show ==
    label_step("cursor_show")
        \o emit_csi
        \o ld_a(63)
        \o call("putchar")
        \o ld_a(50)
        \o call("putchar")
        \o ld_a(53)
        \o call("putchar")
        \o ld_a(104)
        \o call("putchar")
        \o ret

emit_terminal_routines(st, checked) ==
    LET s1 == Run(emit_clear_screen_and_home, st, checked)
        s2 == Run(emit_cursor_pos, s1, checked)
        s3 == Run(emit_clear_to_eol, s2, checked)
        s4 == Run(emit_cursor_hide, s3, checked)
    IN  Run(emit_cursor_show, s4, checked)

(* stdlib/math.rs *)

(* self.unique_label(prefix) inside a routine: the counter moves on and    *)
(* the name is UniqueName(prefix, the new counter)                         *)
unique_step(st) ==
    IF st.panic # NoPanic THEN st
    ELSE [st EXCEPT !.unique_counter = st.unique_counter + 1]

emit_print_byte_dec(st, checked) ==
    LET s1 == Run(label_step("print_byte_dec") \o ld_c(0), st, checked)
        s2 == unique_step(s1)
        extract_loop == UniqueName("pbd_ext", s2.unique_counter)
        s3 == Run(label_step(extract_loop) \o ld_b(0), s2, checked)
        s4 == unique_step(s3)
        div_loop == UniqueName("pbd_div", s4.unique_counter)
        s5 == Run(label_step(div_loop) \o cp(10), s4, checked)
        s6 == unique_step(s5)
        div_done == UniqueName("pbd_ddone", s6.unique_counter)
        s7 == Run(jp_c(div_done)
                      \o sub_a(10)
                      \o inc_b
                      \o jp(div_loop)
                      \o label_step(div_done)
                      \o add_a(48)
                      \o push_af
                      \o inc_c
                      \o ld_a_b
                      \o or_a_a
                      \o jp_nz(extract_loop),
                  s6, checked)
        s8 == unique_step(s7)
        print_loop == UniqueName("pbd_print", s8.unique_counter)
    IN  Run(label_step(print_loop)
                \o pop_af
                \o call("putchar")
                \o dec_c
                \o jp_nz(print_loop)
                \o ret,
            s8, checked)

emit_div16 ==
    label_step("div16")
        \o ld_bc(0)
        \o label_step("div16_loop")
        \o or_a_a
        \o sbc_hl_de
        \o jp_c("div16_done")
        \o inc_bc
        \o jp("div16_loop")
        \o label_step("div16_done")
        \o add_hl_de
        \o ex_de_hl
        \o emit_step(<<96>>)
        \o emit_step(<<105>>)
        \o ret

emit_negate_hl ==
    label_step("negate_hl")
        \o emit_step(<<124>>)
        \o cpl
        \o emit_step(<<103>>)
        \o emit_step(<<125>>)
        \o cpl
        \o emit_step(<<111>>)
        \o inc_hl
        \o ret

(* the math bundle with print_byte_dec left out *)
emit_math_routines_less(st, checked) ==
    Run(emit_negate_hl, Run(emit_div16, st, checked), checked)

emit_math_routines(st, checked) ==
    LET s1 == emit_print_byte_dec(st, checked)
        s2 == Run(emit_div16, s1, checked)
    IN  Run(emit_negate_hl, s2, checked)

(* lib.rs: the three bundles on the session, as one call *)
include_stdlib ==
    /\ Running
    /\ \E checked \in BOOLEAN :
           LET s1 == emit_io_routines(Session, checked)
               s2 == emit_terminal_routines(s1, checked)
               s3 == emit_math_routines(s2, checked)
           IN  /\ rom' = s3.rom
               /\ labels' = s3.labels
               /\ fixups' = s3.fixups
               /\ unique_counter' = s3.unique_counter
               /\ panic' = s3.panic
               /\ Call("include_stdlib", Unit,
                       IF s3.panic = NoPanic THEN Unit ELSE Diverged)
    /\ UNCHANGED <<config, bin_file, hex_file>>

----------------------------------------------------------------------------
(* Reading the call history *)

Last == calls[Len(calls)]

LastIs(name) == calls # << >> /\ Last.name = name

(* the last call was name and it returned r *)
Returned(name, r) == LastIs(name) /\ Last.ret = r

(* call i was name(arg) *)
Was(i, name, arg) == calls[i].name = name /\ calls[i].arg = arg

(* little-endian reading of the two image bytes at a 0-based offset *)
WordAt(image, offset) == image[offset + 1] + 256 * image[offset + 2]

----------------------------------------------------------------------------
(* The session: any call, in any order *)

Next ==
    \/ \E bytes \in EmitArgs : emit(bytes)
    \/ \E b \in ByteArgs : emit_byte(b)
    \/ \E w \in WordArgs : emit_word(w)
    \/ \E s \in StrArgs : emit_string(s)
    \/ \E s \in RawArgs : emit_string_raw(s)
    \/ \E n \in Names : label(n)
    \/ \E n \in Names : fixup(n)
    \/ resolve_fixups
    \/ \E n \in Names : emit_relative(n)
    \/ \E p \in Prefixes : unique_label(p)
    \/ write_bin
    \/ write_hex
    \/ pos

Spec == Init /\ [][Next]_vars

----------------------------------------------------------------------------
(* Relative branches over long distances: blocks of padding, labels and    *)
(* emit_relative, from the default origin and from one near the top of the *)
(* address space.                                                          *)

Padding(n) == [i \in 1 .. n |-> 0]

RelOrigins == {0, 65471}
RelBlocks == {<<0>>, Padding(63), Padding(64)}

InitRel == Start(RelOrigins)

NextRel ==
    \/ \E bytes \in RelBlocks : emit(bytes)
    \/ \E n \in Names : label(n)
    \/ \E n \in Names : emit_relative(n)

SpecRel == InitRel /\ [][NextRel]_vars

----------------------------------------------------------------------------
(* emit_word on every 16-bit value: one word appended to the empty image   *)
(* or after one byte.                                                      *)

Word == 0 .. (U16 - 1)

InitWord == Start({0})

NextWord ==
    \/ calls = << >> /\ \E b \in ByteArgs : emit_byte(b)
    \/ Len(calls) <= 1 /\ ~LastIs("emit_word") /\ \E w \in Word : emit_word(w)

SpecWord == InitWord /\ [][NextWord]_vars

----------------------------------------------------------------------------
(* The Intel HEX serializer over images of up to four blocks, some longer  *)
(* than one record, from origins at the bottom, in the middle and near the *)
(* top of the address space.                                               *)

HexOrigins == {0, 33008, 65520}
HexBlocks == {<<58>>, [i \in 1 .. 15 |-> 255 - i], [i \in 1 .. 16 |-> 16 * i - 1]}

InitHex == Start(HexOrigins)

NextHex ==
    \/ \E bytes \in HexBlocks : emit(bytes)
    \/ write_hex

SpecHex == InitHex /\ [][NextHex]_vars

----------------------------------------------------------------------------
(* The session as CodeGen::new() starts it, at the default origin: any     *)
(* call, in any order.                                                     *)

InitNew == Start({0})

SpecNew == InitNew /\ [][Next]_vars

----------------------------------------------------------------------------
(* The session with the image also edited through rom_mut, from the        *)
(* default origin.                                                         *)

InitMut == Start({0})

NextMut ==
    \/ Next
    \/ \E edit \in MutEdits : rom_mut(edit)

SpecMut == InitMut /\ [][NextMut]_vars

----------------------------------------------------------------------------
(* Sessions configured with one of two stack tops, on which the startup    *)
(* sequence is emitted among the other operations.                         *)

InitStartup ==
    /\ \E t \in StackTops : with_config([DefaultConfig EXCEPT !.stack_top = t])
    /\ panic = NoPanic
    /\ bin_file = NoFile
    /\ hex_file = NoFile
    /\ calls = << >>

NextStartup ==
    \/ Next
    \/ \E t \in StackTops : emit_startup(t)

SpecStartup == InitStartup /\ [][NextStartup]_vars

----------------------------------------------------------------------------
(* A program around the standard library: its own label, references to its *)
(* own label, to routines of the library and to a routine the bundles      *)
(* leave out, the library itself and the resolution.                       *)

ProgramLabels == {"main"}
ProgramRefs == {"main", "print_string", "mul8"}
ProgramPrefixes == {"pbd_ext"}

InitStdlib == Start({0})

NextStdlib ==
    \/ \E bytes \in EmitArgs : emit(bytes)
    \/ \E n \in ProgramLabels : label(n)
    \/ \E n \in ProgramRefs : fixup(n)
    \/ \E q \in ProgramPrefixes : unique_label(q)
    \/ include_stdlib
    \/ resolve_fixups

SpecStdlib == InitStdlib /\ [][NextStdlib]_vars

----------------------------------------------------------------------------
(* Arithmetic the properties are stated in *)

RECURSIVE BitAnd(_, _)
BitAnd(a, b) ==
    IF a = 0 \/ b = 0 THEN 0
    ELSE (a % 2) * (b % 2) + 2 * BitAnd(a \div 2, b \div 2)

ShiftRight(a, k) == a \div (2 ^ k)

(* Reading an Intel HEX text back: the lines of a text, the value of a hex *)
(* digit, the byte at two digits of a line, the bytes of a record.         *)
NewlinesIn(text) == {k \in 1 .. Len(text) : text[k] = 10}

(* position of the j-th newline of the text; 0 for j = 0 *)
NewlineAt(text, j) ==
    IF j = 0 THEN 0
    ELSE CHOOSE k \in NewlinesIn(text) :
             Cardinality({m \in NewlinesIn(text) : m < k}) = j - 1

(* the newline-terminated lines of the text, without their newlines *)
Lines(text) ==
    [j \in 1 .. Cardinality(NewlinesIn(text)) |->
        SubSeq(text, NewlineAt(text, j - 1) + 1, NewlineAt(text, j) - 1)]

HexVal(c) ==
    IF c \in 48 .. 57 THEN c - 48
    ELSE IF c \in 65 .. 70 THEN c - 55
    ELSE -1000

ByteOf(line, k) == 16 * HexVal(line[k]) + HexVal(line[k + 1])

(* a colon, then an odd number of at least five two-digit bytes, of which  *)
(* the first counts the data bytes                                         *)
WellFormed(line) ==
    /\ Len(line) >= 11
    /\ line[1] = 58
    /\ \A k \in 2 .. Len(line) : HexVal(line[k]) >= 0
    /\ Len(line) = 11 + 2 * ByteOf(line, 2)

RecLen(line) == ByteOf(line, 2)
RecAddr(line) == 256 * ByteOf(line, 4) + ByteOf(line, 6)
RecType(line) == ByteOf(line, 8)
RecData(line) == [j \in 1 .. RecLen(line) |-> ByteOf(line, 8 + 2 * j)]
RecSum(line) == ByteOf(line, 10 + 2 * RecLen(line))

RECURSIVE Sum(_)
Sum(seq) == IF seq = << >> THEN 0 ELSE seq[1] + Sum(Tail(seq))

RECURSIVE Flatten(_)
Flatten(seqs) == IF seqs = << >> THEN << >> ELSE seqs[1] \o Flatten(Tail(seqs))

(* ":00000001FF" *)
EofLine == <<58, 48, 48, 48, 48, 48, 48, 48, 49, 70, 70>>

(* the last write_hex got past File::create *)
HexWritten == LastIs("write_hex") /\ Last.ret # Err

HexLines == Lines(hex_file)

(* the complete lines of the file that are not the end-of-file record *)
DataLines == SelectSeq(HexLines, LAMBDA line : line # EofLine)

(* the step just taken was a call of name *)
Called(name) ==
    /\ Len(calls') = Len(calls) + 1
    /\ calls'[Len(calls')].name = name

(* argument and result of the call just taken *)
Arg == calls'[Len(calls')].arg
Ret == calls'[Len(calls')].ret

----------------------------------------------------------------------------
(* C1: once resolve_fixups has returned, the two image bytes at the offset *)
(* of every ledger entry are bytes whose little-endian reading is the      *)
(* address of the entry's label, whether the label was defined before or   *)
(* after the fixup was recorded.                                           *)
C1_ResolvedLittleEndian ==
    Returned("resolve_fixups", Unit) =>
        \A k \in 1 .. Len(fixups) :
            LET offset == fixups[k][1]
                L == fixups[k][2]
            IN  L \in DOMAIN labels =>
                    /\ offset + 2 <= Len(rom)
                    /\ rom[offset + 1] \in Byte
                    /\ rom[offset + 2] \in Byte
                    /\ WordAt(rom, offset) = labels[L]

(* fixup(L), label(L), fixup(L), resolve_fixups: one entry recorded before *)
(* the definition and one after it, both resolved, with a high byte that   *)
(* differs from the low byte.                                              *)
C1_Witness ==
    /\ Returned("resolve_fixups", Unit)
    /\ \E i, j, k \in 1 .. Len(calls) :
           /\ i < j /\ j < k
           /\ Was(i, "fixup", "L")
           /\ Was(j, "label", "L")
           /\ Was(k, "fixup", "L")
    /\ labels["L"] \div U8 # labels["L"] % U8

(* C2: a resolve_fixups that finds a ledger entry whose label is not       *)
(* defined panics with "Undefined label: " and the name of such a label;   *)
(* it never returns while an entry names an undefined label.               *)
C2_UndefinedSymbolReported ==
    LastIs("resolve_fixups") =>
        LET missing == {fixups[k][2] : k \in 1 .. Len(fixups)} \ DOMAIN labels
        IN  /\ missing # {} =>
                   /\ Last.ret = Diverged
                   /\ \E name \in missing : panic = "Undefined label: " \o name
            /\ Last.ret = Unit => missing = {}

(* a ledger with a defined and an undefined label, reported at resolution *)
C2_Witness ==
    /\ LastIs("resolve_fixups")
    /\ panic = "Undefined label: M"
    /\ "L" \in DOMAIN labels
    /\ \E k \in 1 .. Len(fixups) : fixups[k][2] = "L"

(* C3: (as the claim states it) the byte appended by emit_relative, read   *)
(* as a signed 8-bit d, satisfies T = P + 1 + d for the target address T   *)
(* and the position P of the byte, however far apart T and P are; stated   *)
(* here for positions inside the 16-bit address space.                     *)
C3_DisplacementExact ==
    (Returned("emit_relative", Unit) /\ config.org + Len(rom) <= U16) =>
        LET T == labels[Last.arg]
            P == config.org + Len(rom) - 1
            d == AsI8(rom[Len(rom)])
        IN  T = P + 1 + d

(* C3 as amended: T = P + 1 + d whenever T - (P + 1) fits a signed 8-bit   *)
(* integer; for any other target the byte is T - (P + 1) modulo 256.       *)
C3_DisplacementInRange ==
    Returned("emit_relative", Unit) =>
        LET T == labels[Last.arg]
            P == config.org + Len(rom) - 1
            d == AsI8(rom[Len(rom)])
        IN  /\ d \in -128 .. 127
            /\ (T - (P + 1) \in -128 .. 127) => T = P + 1 + d
            /\ (T - (P + 1) - d) % U8 = 0

(* a branch back over exactly 128 bytes, the longest one that fits *)
C3_Witness ==
    /\ Returned("emit_relative", Unit)
    /\ labels[Last.arg] - (config.org + Len(rom)) = -128
    /\ AsI8(rom[Len(rom)]) = -128

(* C4: (as the claim states it) a label defined when N bytes have been     *)
(* appended from origin O is bound to O + N and get_label returns O + N,   *)
(* also when O + N exceeds 0xFFFF.                                         *)
C4_LabelIsOriginPlusLength ==
    Returned("label", Unit) =>
        get_label(Last.arg) = Some(config.org + Len(rom))

(* C4 as amended: the label is bound to O + N when O + N <= 0xFFFF; past   *)
(* that a label that gets bound is bound to O + N - 65536.                 *)
C4_LabelWithinAddressSpace ==
    Returned("label", Unit) =>
        /\ has_label(Last.arg)
        /\ config.org + Len(rom) < U16 =>
               get_label(Last.arg) = Some(config.org + Len(rom))
        /\ config.org + Len(rom) >= U16 =>
               get_label(Last.arg) = Some(config.org + Len(rom) - U16)

(* a label defined after bytes were appended from a non-zero origin *)
C4_Witness ==
    /\ Returned("label", Unit)
    /\ Len(rom) > 0
    /\ config.org > 0
    /\ config.org + Len(rom) < U16
    /\ get_label(Last.arg) = Some(config.org + Len(rom))

(* the bytes appended by the emit and emit_byte calls among the first i *)
RECURSIVE Appended(_)
Appended(i) ==
    IF i = 0 THEN << >>
    ELSE IF calls[i].name = "emit" THEN Appended(i - 1) \o calls[i].arg
    ELSE IF calls[i].name = "emit_byte" THEN Append(Appended(i - 1), calls[i].arg)
    ELSE Appended(i - 1)

(* only raw appends and the binary serializer have been called *)
RawOnly ==
    \A i \in 1 .. Len(calls) : calls[i].name \in {"emit", "emit_byte", "write_bin"}

(* C5: after raw-byte appends only (emit, emit_byte), the image rom() is   *)
(* the concatenation of the appended bytes in call order, and a write_bin  *)
(* that succeeds leaves a file holding exactly those bytes.                *)
C5_RawAppendsConcatenate ==
    RawOnly =>
        /\ rom = Appended(Len(calls))
        /\ Returned("write_bin", Ok) => bin_file = Appended(Len(calls))

(* emit, then emit_byte, then a successful write_bin of the four bytes *)
C5_Witness ==
    /\ RawOnly
    /\ Returned("write_bin", Ok)
    /\ \E i, j \in 1 .. Len(calls) :
           /\ i < j
           /\ Was(i, "emit", <<0, 1, 2>>)
           /\ Was(j, "emit_byte", 201)
    /\ bin_file = <<0, 1, 2, 201>>

(* C6: emit_word(n) appends exactly the two bytes n & 0xFF and             *)
(* (n >> 8) & 0xFF, in that order, and lo + 256 * hi gives n back.         *)
C6_WordLittleEndian ==
    [][Called("emit_word") =>
          /\ Arg \in Word
          /\ rom' = rom \o <<BitAnd(Arg, 255), BitAnd(ShiftRight(Arg, 8), 255)>>
          /\ WordAt(rom', Len(rom)) = Arg]_vars

(* a word whose two bytes differ, appended after another byte *)
C6_Witness ==
    /\ Returned("emit_word", Unit)
    /\ Last.arg = 43981
    /\ rom = <<201, 205, 171>>

(* C7: in the file write_hex leaves, every data record is well formed,    *)
(* has record type 00, and the sum modulo 256 of its length byte, its two  *)
(* address bytes, its type byte, its data bytes and its checksum byte is   *)
(* 0: the checksum is the two's complement of the sum of the others.       *)
C7_RecordChecksum ==
    HexWritten =>
        \A k \in 1 .. Len(DataLines) :
            LET line == DataLines[k]
                others == RecLen(line) + ByteOf(line, 4) + ByteOf(line, 6)
                              + RecType(line) + Sum(RecData(line))
            IN  /\ WellFormed(line)
                /\ RecType(line) = 0
                /\ (others + RecSum(line)) % 256 = 0
                /\ RecSum(line) = (256 - (others % 256)) % 256

(* a file of two data records whose byte sums exceed 255 *)
C7_Witness ==
    /\ Returned("write_hex", Ok)
    /\ Len(DataLines) = 2
    /\ config.org = 33008
    /\ \A k \in 1 .. 2 : Sum(RecData(DataLines[k])) > 255 /\ RecSum(DataLines[k]) # 0

(* the records a serialized image of n bytes at origin O is to consist of *)
HexLayout ==
    LET n == Len(rom)
        count == (n + 15) \div 16
    IN  /\ Last.ret = Ok
        /\ hex_file # << >> /\ hex_file[Len(hex_file)] = 10
        /\ Len(HexLines) = count + 1
        /\ HexLines[count + 1] = EofLine
        /\ \A i \in 0 .. count - 1 :
               LET line == HexLines[i + 1]
                   last == IF 16 * i + 16 < n THEN 16 * i + 16 ELSE n
               IN  /\ WellFormed(line)
                   /\ RecType(line) = 0
                   /\ RecLen(line) = last - 16 * i
                   /\ RecLen(line) \in 1 .. 16
                   /\ RecAddr(line) = config.org + 16 * i
                   /\ RecData(line) = SubSeq(rom, 16 * i + 1, last)
        /\ Flatten([i \in 1 .. count |-> RecData(HexLines[i])]) = rom

(* C8: (as the claim states it) write_hex emits ceil(n/16) data records in *)
(* image order and then the record :00000001FF; record i carries the bytes *)
(* [16i, min(16i+16, n)), their count, and the address O + 16i.            *)
C8_HexLayout == HexWritten => HexLayout

(* C8 as amended: the same, for an image whose record addresses O + 16i    *)
(* all lie within 0xFFFF.                                                  *)
C8_HexLayoutWithinAddressSpace ==
    (HexWritten /\ \A i \in 0 .. NumChunks(rom) - 1 : config.org + 16 * i < U16)
        => HexLayout

(* three records, the last one short, from a non-zero origin *)
C8_Witness ==
    /\ Returned("write_hex", Ok)
    /\ Len(rom) = 33
    /\ config.org = 33008
    /\ Len(HexLines) = 4
    /\ RecLen(HexLines[3]) = 1
    /\ RecAddr(HexLines[3]) = 33040

(* what an append call is to do to the image: keep what is there and add  *)
(* exactly the given bytes                                                 *)
Appends(bytes) ==
    /\ Ret = Unit
    /\ panic' = NoPanic
    /\ Len(rom') = Len(rom) + Len(bytes)
    /\ SubSeq(rom', 1, Len(rom)) = rom
    /\ SubSeq(rom', Len(rom) + 1, Len(rom')) = bytes

AppendEffects ==
    /\ Called("emit") => Appends(Arg)
    /\ Called("emit_byte") => Appends(<<Arg>>)
    /\ Called("emit_word") =>
           Appends(<<BitAnd(Arg, 255), ShiftRight(Arg, 8)>>)
    /\ Called("emit_string") => Appends(Arg \o <<0>>)
    /\ Called("emit_string_raw") => Appends(Arg)

(* C9: (as the claim states it) every append call succeeds and lengthens   *)
(* the image by exactly the bytes written (k, 2, s + 1 with one trailing   *)
(* zero, s), and pos() never fails and returns origin + length, so the     *)
(* position advances by the same count.                                    *)
C9_AppendsAdvancePosition ==
    [][/\ AppendEffects
       /\ Called("pos") => panic' = NoPanic /\ Ret = config.org + Len(rom)]_vars

(* C9 as amended: the same for the appends; pos() returns origin + length  *)
(* while that is at most 0xFFFF, and past that it panics on the overflow   *)
(* or returns origin + length - 65536.                                     *)
C9_AppendsAdvanceWithinAddressSpace ==
    [][/\ AppendEffects
       /\ Called("pos") =>
              IF config.org + Len(rom) < U16
              THEN panic' = NoPanic /\ Ret = config.org + Len(rom)
              ELSE \/ panic' # NoPanic
                   \/ panic' = NoPanic /\ Ret = config.org + Len(rom) - U16]_vars

(* pos() asked after a terminated string and a byte were appended from a   *)
(* non-zero origin                                                         *)
C9_Witness ==
    /\ LastIs("pos")
    /\ panic = NoPanic
    /\ Last.ret = config.org + 4
    /\ config.org > 0
    /\ \E i \in 1 .. Len(calls) : Was(i, "emit_string", Hi)
    /\ \E i \in 1 .. Len(calls) : Was(i, "emit_byte", 201)
    /\ rom = <<72, 105, 0, 201>>

(* C10: fixup(name) at image length n appends the two bytes 00 00 at       *)
(* offsets n and n + 1 and the entry (n, name) at the end of the ledger,   *)
(* in one step, whether or not name is defined; image bytes, ledger        *)
(* entries and label bindings that exist stay as they are.                 *)
C10_FixupEffect ==
    [][Called("fixup") =>
          /\ Ret = Unit
          /\ rom' = rom \o <<0, 0>>
          /\ fixups' = Append(fixups, <<Len(rom), Arg>>)
          /\ labels' = labels
          /\ unique_counter' = unique_counter
          /\ config' = config
          /\ panic' = NoPanic]_vars

(* a fixup on a defined name recorded after one on an undefined name *)
C10_Witness ==
    /\ LastIs("fixup")
    /\ has_label(Last.arg)
    /\ Len(fixups) = 2
    /\ ~has_label(fixups[1][2])
    /\ fixups[2] = <<Len(rom) - 2, Last.arg>>
    /\ fixups[2][1] > 2

(* the 1-based image indices covered by the slots of a ledger *)
SlotIndices(ledger) ==
    UNION {{ledger[k][1] + 1, ledger[k][1] + 2} : k \in 1 .. Len(ledger)}

(* C11: a resolve_fixups that returns changes image bytes only inside the  *)
(* two-byte slots of the ledger; the image length, the bytes outside the   *)
(* slots, the symbol table, the unique-name counter and the ledger (same   *)
(* entries, same order) are as they were before the call.                  *)
C11_ResolveFrame ==
    [][(Called("resolve_fixups") /\ panic' = NoPanic) =>
          /\ Ret = Unit
          /\ Len(rom') = Len(rom)
          /\ \A k \in 1 .. Len(rom) :
                 k \notin SlotIndices(fixups) => rom'[k] = rom[k]
          /\ labels' = labels
          /\ unique_counter' = unique_counter
          /\ fixups' = fixups]_vars

(* a resolution that rewrote a slot lying after three other bytes *)
C11_Witness ==
    /\ Returned("resolve_fixups", Unit)
    /\ Len(fixups) = 1
    /\ fixups[1][1] = 3
    /\ SubSeq(rom, 1, 3) = <<0, 1, 2>>
    /\ rom[4] # 0
    /\ Len(rom) = 5

(* every binding is still there after the step, and still an address *)
BindingsPersist ==
    \A n \in DOMAIN labels :
        /\ has_label(n)'
        /\ get_label(n)' = Some(labels'[n])
        /\ labels'[n] \in 0 .. (U16 - 1)

(* a label call that returns binds its name to the current position, the   *)
(* address of this definition, whether or not the name was bound, and      *)
(* touches no other binding; no other call changes a binding               *)
LatestDefinitionBinds ==
    /\ (Called("label") /\ panic' = NoPanic) =>
           /\ Ret = Unit
           /\ Arg \in DOMAIN labels'
           /\ labels'[Arg] = (config.org + Len(rom)) % U16
           /\ \A n \in DOMAIN labels : n # Arg => labels'[n] = labels[n]
    /\ ~Called("label") => labels' = labels

(* a resolution that returns leaves in every slot, recorded before or      *)
(* after the latest definition of its label, the label's current address   *)
ResolvesToLatest ==
    (Called("resolve_fixups") /\ panic' = NoPanic) =>
        \A k \in 1 .. Len(fixups') :
            /\ fixups'[k][2] \in DOMAIN labels'
            /\ WordAt(rom', fixups'[k][1]) = labels'[fixups'[k][2]]

(* C12: (as the claim states it) a defined name stays defined and its      *)
(* lookup returns an address in every later state; defining an existing    *)
(* name again succeeds and overwrites, so lookup and every fixup resolved  *)
(* afterwards use the address of the most recent definition.               *)
C12_RedefinitionSucceeds ==
    [][/\ BindingsPersist
       /\ LatestDefinitionBinds
       /\ ResolvesToLatest
       /\ (Called("label") /\ has_label(Arg)) => panic' = NoPanic]_vars

(* C12 as amended: the same, the redefinition succeeding whenever origin   *)
(* plus image length is within 0xFFFF; past that it may abort on the       *)
(* overflow of pos(), and then the earlier binding is kept.                *)
C12_RedefinitionWithinAddressSpace ==
    [][/\ BindingsPersist
       /\ LatestDefinitionBinds
       /\ ResolvesToLatest
       /\ (Called("label") /\ has_label(Arg)) =>
              /\ config.org + Len(rom) < U16 => panic' = NoPanic
              /\ panic' # NoPanic => panic' = OverflowMsg /\ labels' = labels]_vars

(* label(L), fixup(L), label(L) again, resolve_fixups: the slot recorded   *)
(* before the redefinition holds the address of the second definition      *)
C12_Witness ==
    /\ Returned("resolve_fixups", Unit)
    /\ \E i, j, k \in 1 .. Len(calls) :
           /\ i < j /\ j < k
           /\ Was(i, "label", "L")
           /\ Was(j, "fixup", "L")
           /\ Was(k, "label", "L")
    /\ get_label("L") = Some(config.org + 2)
    /\ WordAt(rom, fixups[1][1]) = config.org + 2

(* the positions in the history of the unique_label calls *)
UniqueCalls(history) ==
    {i \in 1 .. Len(history) : history[i].name = "unique_label"}

(* C13: any two unique_label calls of a session return different names,    *)
(* whatever their prefixes and whatever is called in between; each call    *)
(* increases unique_counter and no other call changes it.                  *)
C13_UniqueNamesDistinct ==
    [][/\ \A i, j \in UniqueCalls(calls') :
              i # j => calls'[i].ret # calls'[j].ret
       /\ Called("unique_label") => unique_counter' > unique_counter
       /\ ~Called("unique_label") => unique_counter' = unique_counter]_vars

(* two generated names, the second from a prefix that ends like the first  *)
(* name, with a label defined between the two calls                        *)
C13_Witness ==
    /\ \E i, j, k \in 1 .. Len(calls) :
           /\ i < j /\ j < k
           /\ Was(i, "unique_label", "loop")
           /\ calls[j].name = "label"
           /\ Was(k, "unique_label", "loop_1")
           /\ calls[i].ret # calls[k].ret
    /\ unique_counter = 2

(* C14: (as the claim states it) unique_label(prefix) returns the prefix   *)
(* as given, one underscore and the decimal value of the session counter,  *)
(* with nothing before the prefix.                                         *)
C14_NameIsPrefixN ==
    [][Called("unique_label") =>
          Ret = Arg \o "_" \o ToString(unique_counter')]_vars

(* C14 as amended: the name is one underscore, the prefix as given, one    *)
(* underscore and the decimal value of the session counter as the call     *)
(* leaves it, one more than it was.                                        *)
C14_NameIsUnderscorePrefixN ==
    [][Called("unique_label") =>
          /\ unique_counter' = unique_counter + 1
          /\ Ret = "_" \o Arg \o "_" \o ToString(unique_counter')]_vars

(* the second name of a session, from a prefix that has an underscore *)
C14_Witness ==
    /\ LastIs("unique_label")
    /\ Last.arg = "loop_1"
    /\ unique_counter = 2
    /\ Last.ret = "_loop_1_2"

(* an emit_relative on an undefined label aborts naming the label and      *)
(* leaves image, ledger and symbol table as they were                      *)
UndefinedTargetFails ==
    (Called("emit_relative") /\ ~has_label(Arg)) =>
        /\ panic' = "Undefined label for relative jump: " \o Arg
        /\ rom' = rom
        /\ fixups' = fixups
        /\ labels' = labels

(* the call returned having appended one byte, the ledger untouched *)
OneByteAppended ==
    /\ panic' = NoPanic
    /\ Ret = Unit
    /\ Len(rom') = Len(rom) + 1
    /\ SubSeq(rom', 1, Len(rom)) = rom
    /\ rom'[Len(rom')] \in Byte
    /\ fixups' = fixups

(* C15: (as the claim states it) emit_relative on an undefined label fails *)
(* at that call, naming the label, appends no byte and records no ledger   *)
(* entry; on a defined label it appends exactly one byte and leaves the    *)
(* ledger unchanged.                                                       *)
C15_NoDeferredForm ==
    [][/\ UndefinedTargetFails
       /\ (Called("emit_relative") /\ has_label(Arg)) => OneByteAppended]_vars

(* C15 as amended: the same, the byte being appended whenever the address  *)
(* after it, origin + length + 1, is within 0xFFFF; past that the call     *)
(* appends one byte or aborts on the overflow having appended nothing.     *)
C15_NoDeferredFormWithinAddressSpace ==
    [][/\ UndefinedTargetFails
       /\ (Called("emit_relative") /\ has_label(Arg)) =>
              /\ config.org + Len(rom) + 1 < U16 => OneByteAppended
              /\ \/ OneByteAppended
                 \/ /\ panic' = OverflowMsg
                    /\ rom' = rom
                    /\ fixups' = fixups]_vars

(* a branch to the defined L appended one byte, then a branch to the       *)
(* undefined M aborted and left the image and the ledger alone             *)
C15_Witness ==
    /\ LastIs("emit_relative")
    /\ Last.arg = "M"
    /\ panic = "Undefined label for relative jump: M"
    /\ \E i \in 1 .. Len(calls) :
           Was(i, "emit_relative", "L") /\ calls[i].ret = Unit
    /\ Len(rom) = 3
    /\ Len(fixups) = 1
    /\ \A k \in 1 .. Len(fixups) : fixups[k][2] # "M"

(* index in the history of the last resolve_fixups call, 0 if there is none *)
LastResolve ==
    LET rs == {i \in 1 .. Len(calls) : calls[i].name = "resolve_fixups"}
    IN  IF rs = {} THEN 0 ELSE CHOOSE i \in rs : \A j \in rs : j <= i

(* the ledger entries recorded since the last resolve_fixups, all of them  *)
(* if it was never called                                                  *)
Unresolved ==
    LET since == Cardinality({i \in (LastResolve + 1) .. Len(calls) :
                                 calls[i].name = "fixup"})
    IN  {k \in 1 .. Len(fixups) : k > Len(fixups) - since}

(* the image holds 00 00 at the slot of every unresolved entry *)
PlaceholdersIn(image) ==
    \A k \in Unresolved :
        /\ fixups[k][1] + 2 <= Len(image)
        /\ image[fixups[k][1] + 1] = 0
        /\ image[fixups[k][1] + 2] = 0

(* the bytes the data records of the hex file carry, in file order *)
HexImage == Flatten([k \in 1 .. Len(DataLines) |-> RecData(DataLines[k])])

(* no operation waits for a phase: while the session runs each one can be  *)
(* called                                                                  *)
EveryOperationCallable ==
    /\ \A bytes \in EmitArgs : ENABLED emit(bytes)
    /\ \A b \in ByteArgs : ENABLED emit_byte(b)
    /\ \A w \in WordArgs : ENABLED emit_word(w)
    /\ \A t \in StrArgs : ENABLED emit_string(t)
    /\ \A t \in RawArgs : ENABLED emit_string_raw(t)
    /\ \A n \in Names : ENABLED label(n)
    /\ \A n \in Names : ENABLED fixup(n)
    /\ ENABLED resolve_fixups
    /\ \A n \in Names : ENABLED emit_relative(n)
    /\ \A q \in Prefixes : ENABLED unique_label(q)
    /\ ENABLED write_bin
    /\ ENABLED write_hex
    /\ ENABLED pos

(* C16: the order EMIT, RESOLVE, SERIALIZE is not enforced: every          *)
(* operation can be called in every state of a running session; a fixup    *)
(* recorded after the last resolve_fixups (or with none called) has 00 00  *)
(* in its slot, in the image and in what write_bin and write_hex write of  *)
(* it; and neither the late fixup nor the early serializer reports it.     *)
C16_PhaseOrderNotEnforced ==
    /\ Running => EveryOperationCallable
    /\ PlaceholdersIn(rom)
    /\ Returned("write_bin", Ok) => PlaceholdersIn(bin_file)
    /\ Returned("write_hex", Ok) => PlaceholdersIn(HexImage)
    /\ LastIs("fixup") => Last.ret = Unit /\ panic = NoPanic
    /\ LastIs("write_bin") => Last.ret \in {Ok, Err} /\ panic = NoPanic
    /\ (LastIs("write_hex") /\ Unresolved # {}) =>
           panic \in {NoPanic, OverflowMsg}

(* resolve_fixups, then fixup(L), then both serializers: each returns Ok   *)
(* and writes 00 00 for the slot                                           *)
C16_Witness ==
    /\ \E i, j, k \in 1 .. Len(calls) :
           /\ i < j /\ j < k
           /\ calls[i].name = "resolve_fixups"
           /\ Was(j, "fixup", "L")
           /\ calls[k].name = "write_bin" /\ calls[k].ret = Ok
    /\ Returned("write_hex", Ok)
    /\ Unresolved = {1}
    /\ bin_file = <<0, 0>>
    /\ HexImage = <<0, 0>>

(* the step keeps every byte of the image where it is, but for the slots   *)
(* of the ledger when the step is a resolve_fixups                         *)
ImageKept ==
    /\ Len(rom') >= Len(rom)
    /\ \A k \in 1 .. Len(rom) :
           \/ rom'[k] = rom[k]
           \/ Called("resolve_fixups") /\ k \in SlotIndices(fixups)

(* the step removes no label name and no ledger entry *)
TablesKept ==
    /\ DOMAIN labels \subseteq DOMAIN labels'
    /\ Len(fixups') >= Len(fixups)
    /\ SubSeq(fixups', 1, Len(fixups)) = fixups

(* C17: (as the claim states it) every public operation, rom_mut among     *)
(* them, leaves the image it found as a prefix of the image it leaves, but *)
(* for the slots resolve_fixups rewrites, and removes no label name and no *)
(* ledger entry.                                                           *)
C17_AppendOnly == [][ImageKept /\ TablesKept]_vars

(* C17 as amended: the same for every public operation other than the raw  *)
(* access rom_mut gives, which leaves the labels and the ledger alone but  *)
(* lets the caller shorten and overwrite the image.                        *)
C17_AppendOnlyButRawAccess ==
    [][/\ ~Called("rom_mut") => ImageKept
       /\ TablesKept]_vars

(* bytes, a label, a fixup and a resolution, with no raw access: the image *)
(* grew at each append and only the slot was rewritten                     *)
C17_Witness ==
    /\ Returned("resolve_fixups", Unit)
    /\ \A i \in 1 .. Len(calls) : calls[i].name # "rom_mut"
    /\ \E i, j, k \in 1 .. Len(calls) :
           /\ i < j /\ j < k
           /\ Was(i, "emit_string_raw", Hi)
           /\ calls[j].name = "label"
           /\ calls[k].name = "fixup"
    /\ rom = <<72, 105, 2, 0>>
    /\ DOMAIN labels # {}

(* C18: emit_startup emits DI and LD SP, nn with nn the stack_top of the   *)
(* session's configuration, and no operation changes the configuration.    *)
C18_StartupUsesConfiguredStackTop ==
    [][/\ config' = config
       /\ (Called("emit_startup") /\ panic' = NoPanic) =>
              /\ Len(rom') = Len(rom) + 4
              /\ rom'[Len(rom) + 2] = 49
              /\ WordAt(rom', Len(rom) + 2) = config.stack_top]_vars

(* the labels the routines of the three bundles create *)
StdlibEntryPoints ==
    {"getchar", "putchar", "putchar_wait", "newline", "print_string",
     "print_string_loop", "clear_screen", "cursor_home", "cursor_pos",
     "clear_to_eol", "cursor_hide", "cursor_show", "print_byte_dec", "div16",
     "div16_loop", "div16_done", "negate_hl"}

(* include_stdlib has been called and has returned *)
Included == \E i \in 1 .. Len(calls) : calls[i].name = "include_stdlib"

(* the names the program has defined itself *)
OwnLabels == {calls[i].arg : i \in {j \in 1 .. Len(calls) : calls[j].name = "label"}}

(* every fixup the program recorded itself names one of its own labels or  *)
(* a label the bundles create                                              *)
ProgramClosed ==
    \A i \in 1 .. Len(calls) :
        calls[i].name = "fixup" =>
            calls[i].arg \in OwnLabels \cup StdlibEntryPoints

Slot(k) == {fixups[k][1], fixups[k][1] + 1}

(* C20: without raw access to the image, every ledger entry (offset, name) *)
(* has offset + 2 <= image length, the offsets increase in recording order *)
(* by at least 2, the slots are pairwise disjoint, and resolve_fixups      *)
(* never stops on an index outside the image.                              *)
C20_LedgerSlotsInBounds ==
    /\ \A k \in 1 .. Len(fixups) :
           fixups[k][1] >= 0 /\ fixups[k][1] + 2 <= Len(rom)
    /\ \A k \in 1 .. Len(fixups) - 1 :
           fixups[k + 1][1] >= fixups[k][1] + 2
    /\ \A j, k \in 1 .. Len(fixups) : j # k => Slot(j) \cap Slot(k) = {}
    /\ LastIs("resolve_fixups") =>
           \A k \in 1 .. Len(fixups) :
               /\ panic # IndexMsg(Len(rom), fixups[k][1])
               /\ panic # IndexMsg(Len(rom), fixups[k][1] + 1)

(* two fixups recorded back to back and resolved: the slots touch without  *)
(* overlapping and the second ends where the image ends                    *)
C20_Witness ==
    /\ Returned("resolve_fixups", Unit)
    /\ Len(fixups) = 2
    /\ fixups[2][1] = fixups[1][1] + 2
    /\ Len(rom) = fixups[2][1] + 2
    /\ WordAt(rom, fixups[2][1]) = labels[fixups[2][2]]
    /\ labels[fixups[2][2]] > 0

(* the ledger entries whose label the symbol table does not hold *)
UndefinedEntries == {k \in 1 .. Len(fixups) : fixups[k][2] \notin DOMAIN labels}

(* the first of them in recording order *)
FirstUndefined == CHOOSE k \in UndefinedEntries : \A j \in UndefinedEntries : k <= j

(* C21: resolve_fixups walks the ledger in recording order and stops at    *)
(* the first entry whose label is undefined: the panic names that entry's  *)
(* label, every entry recorded before it holds its label's address, and    *)
(* the slots of that entry and of all entries after it, like the length of *)
(* the image, are as they were before the call; the patches made before    *)
(* the failure stay in the image.                                          *)
C21_StopsAtFirstUndefined ==
    [][Called("resolve_fixups") =>
          IF UndefinedEntries = {} THEN panic' = NoPanic
          ELSE /\ panic' = UndefinedLabelMsg(fixups[FirstUndefined][2])
               /\ Ret = Diverged
               /\ Len(rom') = Len(rom)
               /\ fixups' = fixups
               /\ \A j \in 1 .. FirstUndefined - 1 :
                      WordAt(rom', fixups[j][1]) = labels[fixups[j][2]]
               /\ \A j \in FirstUndefined .. Len(fixups) :
                      /\ rom'[fixups[j][1] + 1] = rom[fixups[j][1] + 1]
                      /\ rom'[fixups[j][1] + 2] = rom[fixups[j][1] + 2]]_vars

(* the library, then a reference to mul8, which no bundle defines, then a  *)
(* reference to print_string: the resolution has patched the library's     *)
(* entries, has stopped at mul8 and has left the later slot of the         *)
(* defined print_string with its placeholder                               *)
C21_Witness ==
    /\ LastIs("resolve_fixups")
    /\ panic = UndefinedLabelMsg("mul8")
    /\ Included
    /\ FirstUndefined > 2
    /\ FirstUndefined < Len(fixups)
    /\ \E j \in 1 .. FirstUndefined - 1 : fixups[j][2] # fixups[1][2]
    /\ \A j \in 1 .. FirstUndefined - 1 :
           /\ WordAt(rom, fixups[j][1]) = labels[fixups[j][2]]
           /\ labels[fixups[j][2]] > 0
    /\ LET after == fixups[Len(fixups)]
       IN  /\ after[2] = "print_string"
           /\ labels["print_string"] > 0
           /\ WordAt(rom, after[1]) = 0

(* an image with every slot of a ledger back at the two zero bytes that    *)
(* fixup appended for it: the image as the appends alone have built it     *)
Placeholders(image, ledger) ==
    LET slots == SlotIndices(ledger)
    IN  [k \in 1 .. Len(image) |-> IF k \in slots THEN 0 ELSE image[k]]

(* C22: resolve_fixups can be run again. Whatever earlier resolutions have *)
(* written, a call leaves the image that a first resolution of the image   *)
(* built by the appends alone leaves, with the same outcome; a call that   *)
(* directly follows a resolution leaves the image as it is; and no call    *)
(* changes the image built by the appends alone otherwise than by          *)
(* appending to it, resolve_fixups not at all.                             *)
C22_ResolveRepeatable ==
    [][/\ Called("resolve_fixups") =>
              LET once == resolve_loop(Placeholders(rom, fixups), 1)
              IN  /\ rom' = once.rom
                  /\ panic' = once.panic
                  /\ Placeholders(rom', fixups') = Placeholders(rom, fixups)
       /\ (Called("resolve_fixups") /\ LastIs("resolve_fixups")) => rom' = rom
       /\ ~Called("resolve_fixups") =>
              Placeholders(rom', fixups') =
                  Placeholders(rom, fixups) \o SubSeq(rom', Len(rom) + 1, Len(rom'))]_vars

(* the library, a resolution, the library again (appends, redefinitions of *)
(* every routine's label, new ledger entries) and a second resolution: the *)
(* slots of the first copy that name a routine, written once already, now  *)
(* hold addresses inside the second copy                                   *)
C22_Witness ==
    /\ Len(calls) = 4
    /\ Was(1, "include_stdlib", Unit)
    /\ Was(2, "resolve_fixups", Unit)
    /\ Was(3, "include_stdlib", Unit)
    /\ Returned("resolve_fixups", Unit)
    /\ LET half == Len(fixups) \div 2
       IN  /\ half > 1
           /\ fixups[1][2] \in StdlibEntryPoints
           /\ \A j \in 1 .. Len(fixups) :
                  /\ WordAt(rom, fixups[j][1]) = labels[fixups[j][2]]
                  /\ fixups[j][2] \in StdlibEntryPoints =>
                         labels[fixups[j][2]] > fixups[half][1]

====
